---- MODULE Spec2Model ----
(***************************************************************************)
(* Happy Quotes: the data-access layer of happy_models.py (MySQLDB, the    *)
(* pydantic records Quote/Author/Comment/Metadata and ModelQueries) as a   *)
(* state machine over the four tables of the database, with the            *)
(* provisioning calls of MySQLDB, the controller of happy_tk_gui.py and    *)
(* the startup and exit of happyquotes_main.py.                            *)
(*                                                                         *)
(* Strings that the SQL looks into (tags, names) are sequences of          *)
(* one-character strings; a NULL column and an omitted Optional field are  *)
(* 0, which no PositiveInt can be.                                         *)
(***************************************************************************)
EXTENDS Integers, Sequences, FiniteSets, TLC

VARIABLES quote, author, comment, metadata, conns, pc, locals, rec, ret, last, proc, schema

vars == <<quote, author, comment, metadata, conns, pc, locals, rec, ret, last, proc, schema>>

tables == <<quote, author, comment, metadata>>

-----------------------------------------------------------------------------
(* Bounds of the model *)

\* rows the database holds at most, all tables together
MaxRows == 3

\* quotes in the database that the program is started on, at most
MaxQuotes == 2

\* characters of an entry of a list of tags or of metadata values, at most
MaxStrLen == 2

\* authors in the database that top5_authors is run on, at most
MaxAuthors == 6

\* rows that another client inserts while one call of run_model is under way,
\* at most
MaxOthers == 2

-----------------------------------------------------------------------------
(* Values *)

NULL == 0

\* Python values that cross the API: None, a list of dict rows, an int,
\* and an exception that propagates instead of a value
NoneV == [t |-> "None", rows |-> <<>>, n |-> 0]
ListV(rows) == [t |-> "list", rows |-> rows, n |-> 0]
IntV(n) == [t |-> "int", rows |-> <<>>, n |-> n]
RaiseV == [t |-> "raise", rows |-> <<>>, n |-> 0]

\* Python truthiness of such a value
Truthy(v) ==
    \/ v.t = "list" /\ v.rows # <<>>
    \/ v.t = "int" /\ v.n # 0

Min(a, b) == IF a < b THEN a ELSE b

\* all the orders in which the elements of S can be listed
Perms(S) ==
    {f \in [1..Cardinality(S) -> S] : \A i, j \in 1..Cardinality(S) : i # j => f[i] # f[j]}

\* ', '.join(list) of happy_models.py:294 and :547
RECURSIVE JoinCommaSpace(_)
JoinCommaSpace(l) ==
    IF l = <<>> THEN <<>>
    ELSE IF Len(l) = 1 THEN l[1]
    ELSE l[1] \o <<",", " ">> \o JoinCommaSpace(Tail(l))

\* SQL's  s LIKE p : % matches any run of characters, _ any one character
RECURSIVE Like(_, _)
Like(s, p) ==
    IF p = <<>> THEN s = <<>>
    ELSE IF Head(p) = "%" THEN Like(s, Tail(p)) \/ (s # <<>> /\ Like(Tail(s), p))
    ELSE IF s = <<>> THEN FALSE
    ELSE (Head(p) = "_" \/ Head(p) = Head(s)) /\ Like(Tail(s), Tail(p))

\* s contains sub as a substring
Contains(s, sub) ==
    \E i \in 1..(Len(s) - Len(sub) + 1) : SubSeq(s, i, i + Len(sub) - 1) = sub

-----------------------------------------------------------------------------
(* Inputs: the records a caller constructs and the values it passes *)

Contents == {"C", "D"}
\* a list of two tags, one of them "t", and a list of one longer tag that "t" is
\* a part of (as "travel" is of "travel-logs")
TagLists == { << <<"t">>, <<"x">> >>, << <<"t", "-", "l">> >> }
AuthorNames == { <<"a">>, <<"a", "b">> }
AuthorRefs == {NULL, 1}
\* an id the caller may already have put on a record it saves
PresetIds == {NULL, 9}
KeyNames == { <<"all_authors">>, <<"all_tags">> }

QuoteRecords ==
    [type : {"Quote"}, id : PresetIds,
     f : [content : Contents, author_id : AuthorRefs, tags : TagLists]]
AuthorRecords ==
    [type : {"Author"}, id : PresetIds,
     f : [name : AuthorNames, birth_date : {"1900-01-01"}, birth_city : {"city"},
          birth_state : {NULL}, birth_country : {"country"}, description : {"bio"}]]
CommentRecords ==
    [type : {"Comment"}, id : PresetIds,
     f : [quote_id : {1}, title : {"title"}, details : {"details"},
          user_email : {"u@example.com"}]]
MetadataRecords ==
    [type : {"Metadata"}, id : PresetIds,
     f : [key_name : KeyNames, key_value : { << <<"a">>, <<"a", "b">> >> }]]

NoRecord == [type |-> "none", id |-> NULL, f |-> <<>>]

\* the optional value of run_model: omitted (None), an int or a str
NoArg == [t |-> "None", n |-> 0, s |-> <<>>]
IntArg(n) == [t |-> "int", n |-> n, s |-> <<>>]
StrArg(s) == [t |-> "str", n |-> 0, s |-> s]

Tags == { <<"t">>, <<"x">>, <<"_">> }

-----------------------------------------------------------------------------
(* The database server: what each statement of happy_models.py selects *)

TotalRows == Len(quote) + Len(author) + Len(comment) + Len(metadata)

\* quote q JOIN author a ON q.author_id = a.id_author
JoinedQuotes == {i \in 1..Len(quote) : quote[i].author_id \in 1..Len(author)}

\* SELECT q.content AS content, a.name AS author_name, q.tags AS tags
QuoteRow(i) ==
    [content |-> quote[i].content,
     author_name |-> author[quote[i].author_id].name,
     tags |-> quote[i].tags]

\* SELECT name, birth_date, birth_city, birth_state, birth_country, description
AuthorRow(i) == author[i]

\* SELECT title, details, user_email
CommentRow(i) ==
    [title |-> comment[i].title, details |-> comment[i].details,
     user_email |-> comment[i].user_email]

\* SELECT key_value
MetadataRow(i) == [key_value |-> metadata[i].key_value]

\* the orders in which the server may return the rows S of a SELECT that has
\* no ORDER BY, or that has ORDER BY RAND()
RowOrders(S) == Perms(S)

\* a LIMIT that is off by one
LimitOneMore(orders, k) == {SubSeq(o, 1, Min(k + 1, Len(o))) : o \in orders}

\* ... LIMIT k
Limit(orders, k) == {SubSeq(o, 1, Min(k, Len(o))) : o \in orders}
Rows(o, F(_)) == [k \in 1..Len(o) |-> F(o[k])]
Selected(o, F(_)) == [ids |-> o, rows |-> Rows(o, F)]

\* authors that have a quote, by name: author a JOIN quote q ... GROUP BY a.name
GroupNames == {author[quote[i].author_id].name : i \in JoinedQuotes}
QuoteCount(name) ==
    Cardinality({i \in JoinedQuotes : author[quote[i].author_id].name = name})
\* the names of S in any order
RECURSIVE AnyOrders(_)
AnyOrders(S) ==
    IF S = {} THEN {<<>>}
    ELSE UNION {{<<x>> \o o : o \in AnyOrders(S \ {x})} : x \in S}

\* the names of S by quote_count DESC: a name of the largest count first, the
\* order among equal counts left to the server
RECURSIVE DescendingOrders(_)
DescendingOrders(S) ==
    IF S = {} THEN {<<>>}
    ELSE UNION {{<<x>> \o o : o \in DescendingOrders(S \ {x})} :
                  x \in {y \in S : \A z \in S : QuoteCount(y) >= QuoteCount(z)}}

\* a query without its ORDER BY
Top5OrdersUnordered == AnyOrders(GroupNames)

\* GROUP BY a.name ORDER BY quote_count DESC
Top5Orders == DescendingOrders(GroupNames)
Top5Row(name) == [name |-> name, quote_count |-> QuoteCount(name)]

\* a count taken over the quote-author join
CountJoinedQuotes == Cardinality(JoinedQuotes)

\* SELECT COUNT(*) AS total_quotes FROM quote
CountQuotes == Len(quote)

\* LIMIT %s is a syntax error unless the value is a non-negative integer
LimitOK(arg) == arg.t = "int" /\ arg.n >= 0

\* the results the server may give to each SELECT of happy_models.py
Select(sql, arg) ==
    CASE sql = "quote_fetch_all" ->
           {Selected(o, QuoteRow) : o \in RowOrders(JoinedQuotes)}
      [] sql = "quote_fetch_by_id" ->
           {Selected(o, QuoteRow) :
              o \in RowOrders({i \in JoinedQuotes : arg.t = "int" /\ i = arg.n})}
      [] sql = "quote_fetch_by_tag" ->
           {Selected(o, QuoteRow) :
              o \in RowOrders({i \in JoinedQuotes : Like(quote[i].tags, arg.s)})}
      [] sql = "quote_fetch_by_author" ->
           {Selected(o, QuoteRow) :
              o \in RowOrders({i \in JoinedQuotes :
                     arg.t = "str" /\ Like(author[quote[i].author_id].name, arg.s)})}
      [] sql = "x_quotes" ->
           {Selected(o, QuoteRow) : o \in Limit(RowOrders(JoinedQuotes), arg.n)}
      [] sql = "random_quote" ->
           {Selected(o, QuoteRow) : o \in Limit(RowOrders(JoinedQuotes), 1)}
      [] sql = "total_quotes" ->
           {[ids |-> <<>>, rows |-> <<[total_quotes |-> CountQuotes]>>]}
      [] sql = "top5_authors" ->
           {[ids |-> <<>>, rows |-> Rows(o, Top5Row)] : o \in Limit(Top5Orders, 5)}
      [] sql = "rand_id" ->
           {[ids |-> o, rows |-> [k \in 1..Len(o) |-> [id_quote |-> o[k]]]] :
              o \in Limit(RowOrders(1..Len(quote)), 1)}
      [] sql = "author_fetch_by_name" ->
           {Selected(o, AuthorRow) :
              o \in RowOrders({i \in 1..Len(author) :
                     arg.t = "str" /\ Like(author[i].name, arg.s)})}
      [] sql = "comment_by_quote_id" ->
           {Selected(o, CommentRow) :
              o \in RowOrders({i \in 1..Len(comment) :
                     arg.t = "int" /\ comment[i].quote_id = arg.n})}
      [] sql = "metadata_fetch_by_key_name" ->
           {Selected(o, MetadataRow) :
              o \in RowOrders({i \in 1..Len(metadata) :
                     arg.t = "str" /\ metadata[i].key_name = arg.s})}

\* a statement that replaces the newest row instead of adding one
InsertRowOverwrite(t, row) == IF t = <<>> THEN <<row>> ELSE [t EXCEPT ![Len(t)] = row]

\* INSERT INTO t (...) VALUES (...): the row gets the next id of its table
InsertRow(t, row) == Append(t, row)

-----------------------------------------------------------------------------
(* MySQLDB: one connection per call *)

\* the ways a call of sql_query can go: connect() raises Error, execute()
\* raises Error, or the statement runs and fetchall() gives its rows
QueryOutcomes(sql, arg) ==
    {[connected |-> c, error |-> TRUE, ids |-> <<>>, rows |-> <<>>] : c \in BOOLEAN}
    \cup (IF sql = "x_quotes" /\ ~LimitOK(arg) THEN {}
          ELSE {[connected |-> TRUE, error |-> FALSE, ids |-> r.ids, rows |-> r.rows] :
                  r \in Select(sql, arg)})

\* the ways a call of sql_execute with an INSERT into table t can go:
\* connect() raises Error; execute() raises Error; execute() runs the INSERT,
\* which autocommit=True makes lasting, and conn.commit() raises Error; or all
\* of it runs. inserted tells whether the server has added the row
ExecuteOutcomes(t) ==
    {[connected |-> c, error |-> TRUE, inserted |-> FALSE, rowcount |-> 0, lastrowid |-> 0] :
       c \in BOOLEAN}
    \cup (IF TotalRows >= MaxRows THEN {}
          ELSE {[connected |-> TRUE, error |-> e, inserted |-> TRUE,
                 rowcount |-> IF e THEN 0 ELSE 1,
                 lastrowid |-> IF e THEN 0 ELSE Len(t) + 1] : e \in BOOLEAN})

\* sql_query that lets the driver's Error through
sql_query_reraise(o) == IF o.error THEN RaiseV ELSE ListV(o.rows)

\* sql_query that answers a failure with an empty list
sql_query_empty_on_error(o) == ListV(o.rows)

\* sql_query: return results / except Error: return None
sql_query(o) == IF o.error THEN NoneV ELSE ListV(o.rows)

\* sql_execute: return rowcount, lastrowid / except Error: return None, None
sql_execute(o) ==
    IF o.error THEN <<NoneV, NoneV>> ELSE <<IntV(o.rowcount), IntV(o.lastrowid)>>

\* a finally block that closes the cursor only
FinallyCloseCursorOnly(open, c) == open

\* finally: if conn and conn.is_connected(): conn.close()
FinallyClose(open, c) == open \ {c}

\* what the most recent call of sql_execute or sql_query did: the connect()
\* calls it made, whether the connection was established, whether it was one
\* that was open already, the rows the server matched and the value returned;
\* calls and errors count the calls made, and those that failed, since the
\* caller last went on, others the rows that another client has inserted since
NoCall ==
    [fn |-> "", error |-> FALSE, connects |-> 0, opened |-> FALSE, reused |-> FALSE,
     matched |-> 0, ids |-> <<>>, value |-> <<>>, calls |-> 0, errors |-> 0, others |-> 0]

\* conn = mysql.connector.connect(...): a connection that was not open before
NewConn(open) == CHOOSE c \in 1..(Cardinality(open) + 1) : c \notin open

\* what one call of sql_execute or sql_query does to the connections: it
\* connects once, and the finally block runs on every path
SqlCall(fn, o, value) ==
    LET c == NewConn(conns)
    IN /\ conns' = FinallyClose(IF o.connected THEN conns \cup {c} ELSE conns, c)
       /\ last' = [fn |-> fn, error |-> o.error, connects |-> 1, opened |-> o.connected,
                   reused |-> o.connected /\ c \in conns,
                   matched |-> IF fn = "sql_query" THEN Len(o.rows) ELSE 0,
                   ids |-> IF fn = "sql_query" THEN o.ids ELSE <<>>,
                   value |-> value,
                   calls |-> last.calls + 1,
                   errors |-> last.errors + (IF o.error THEN 1 ELSE 0),
                   others |-> last.others]
-----------------------------------------------------------------------------
(* The records: db_save and the fetch operations *)

\* a Quote.db_save that joins the tags with "," alone
InsertValCommaOnly(r) ==
    CASE r.type = "Quote" ->
           [content |-> r.f.content, author_id |-> r.f.author_id,
            tags |-> IF Len(r.f.tags) = 2 THEN r.f.tags[1] \o <<",">> \o r.f.tags[2]
                     ELSE JoinCommaSpace(r.f.tags)]
      [] r.type = "Author" -> r.f
      [] r.type = "Comment" -> r.f
      [] r.type = "Metadata" ->
           [key_name |-> r.f.key_name, key_value |-> JoinCommaSpace(r.f.key_value)]

\* the val tuple each db_save builds, as the row it inserts
InsertVal(r) ==
    CASE r.type = "Quote" ->
           [content |-> r.f.content, author_id |-> r.f.author_id,
            tags |-> JoinCommaSpace(r.f.tags)]
      [] r.type = "Author" -> r.f
      [] r.type = "Comment" -> r.f
      [] r.type = "Metadata" ->
           [key_name |-> r.f.key_name, key_value |-> JoinCommaSpace(r.f.key_value)]

TableOf(type) ==
    CASE type = "Quote" -> quote
      [] type = "Author" -> author
      [] type = "Comment" -> comment
      [] type = "Metadata" -> metadata

\* a db_save that returns the id and leaves the record as it was
AssignIdForgotten(r, lastrowid) == r

\* if lastrowid: self.id_... = lastrowid
AssignId(r, lastrowid) == IF Truthy(lastrowid) THEN [r EXCEPT !.id = lastrowid.n] ELSE r

\* how the caller's last call ended: the operation, its case and argument (arg
\* for run_model and the fetches, inp the record as it was when db_save was
\* called), and the values returned or the exception
NoResult ==
    [op |-> "", case |-> "", arg |-> NoArg, inp |-> NoRecord, kind |-> "none", val |-> <<>>]
Returned(op, case, arg, val) ==
    [op |-> op, case |-> case, arg |-> arg, inp |-> NoRecord, kind |-> "return", val |-> val]
Raised(op, case, arg) ==
    [op |-> op, case |-> case, arg |-> arg, inp |-> NoRecord, kind |-> "raise", val |-> <<>>]

\* an Author.db_save whose INSERT names the metadata table
InsertTableMetadata(r) == IF r.type = "Author" THEN "Metadata" ELSE r.type

\* the one table the INSERT statement of the record's class names
InsertTable(r) == r.type

\* record.db_save(db) of Quote, Author, Comment and Metadata
db_save(r) ==
    /\ pc = "idle"
    /\ \E o \in ExecuteOutcomes(TableOf(r.type)) :
         LET res == sql_execute(o)
             ins(type, t) ==
                 IF o.inserted /\ InsertTable(r) = type THEN InsertRow(t, InsertVal(r)) ELSE t
         IN /\ SqlCall("sql_execute", o, res)
            /\ quote' = ins("Quote", quote)
            /\ author' = ins("Author", author)
            /\ comment' = ins("Comment", comment)
            /\ metadata' = ins("Metadata", metadata)
            /\ IF res[1].t = "raise"
               THEN /\ rec' = r
                    /\ ret' = [Raised("db_save", r.type, NoArg) EXCEPT !.inp = r]
               ELSE /\ rec' = AssignId(r, res[2])
                    /\ ret' = [Returned("db_save", r.type, NoArg, res) EXCEPT !.inp = r]
    /\ pc' = "done"
    /\ UNCHANGED <<schema, locals, proc>>

\* a call of sql_query by a caller that only reads: its result is returned
\* unchanged, an exception propagates
Query(op, case, arg, sql, val) ==
    /\ \E o \in QueryOutcomes(sql, val) :
         LET res == sql_query(o)
         IN /\ SqlCall("sql_query", o, <<res>>)
            /\ ret' = IF res.t = "raise" THEN Raised(op, case, arg)
                      ELSE Returned(op, case, arg, <<res>>)
    /\ pc' = "done"
    /\ UNCHANGED <<schema, tables, locals, proc>>

\* Quote.fetch_by_id(db, quote_id), called with the id of the Quote the caller
\* has just saved
fetch_by_id ==
    /\ pc = "done"
    /\ ret.op = "db_save"
    /\ ret.case = "Quote"
    /\ ret.kind = "return"
    /\ Truthy(ret.val[2])
    /\ Query("fetch_by_id", "", IntArg(ret.val[2].n), "quote_fetch_by_id",
             IntArg(ret.val[2].n))
    /\ UNCHANGED rec

-----------------------------------------------------------------------------
(* ModelQueries.run_model *)

Cases ==
    {"quotes_by_author", "x_quotes", "random_quote", "total_quotes", "quotes_by_tag",
     "top5_authors", "comments_random_quote", "author_bio", "all_quotes", "metadata"}

\* the statement each one-query case runs
SqlOf(case) ==
    CASE case = "quotes_by_author" -> "quote_fetch_by_author"
      [] case = "x_quotes" -> "x_quotes"
      [] case = "random_quote" -> "random_quote"
      [] case = "total_quotes" -> "total_quotes"
      [] case = "quotes_by_tag" -> "quote_fetch_by_tag"
      [] case = "top5_authors" -> "top5_authors"
      [] case = "author_bio" -> "author_fetch_by_name"
      [] case = "all_quotes" -> "quote_fetch_all"
      [] case = "metadata" -> "metadata_fetch_by_key_name"

\* what a caller may ask quotes_by_author for: the names, and a name with a
\* character that LIKE reads as a wildcard
AuthorPatterns == AuthorNames \cup { <<"a", "_">> }

\* the values each case is called with; None is the default of run_model
ArgsOf(case) ==
    {NoArg} \cup
    CASE case = "quotes_by_author" -> {StrArg(n) : n \in AuthorPatterns}
      [] case = "author_bio" -> {StrArg(n) : n \in AuthorNames}
      [] case = "x_quotes" -> {IntArg(n) : n \in 0..MaxRows}
      [] case = "quotes_by_tag" -> {StrArg(t) : t \in Tags}
      [] case = "metadata" -> {StrArg(k) : k \in KeyNames}
      [] OTHER -> {}

\* a fetch_by_author that looks for the name anywhere in a.name
fetch_by_author_val_anywhere(author_name) == <<"%">> \o author_name \o <<"%">>

\* Quote.fetch_by_author: val = (author_name,)
fetch_by_author_val(author_name) == author_name

\* Quote.fetch_by_tag: val = ("%" + tag + "%",)
fetch_by_tag_val(tag) == <<"%">> \o tag \o <<"%">>

\* the val tuple that a case passes to sql_query with its statement
QueryVal(case, arg) ==
    CASE case = "quotes_by_tag" -> StrArg(fetch_by_tag_val(arg.s))
      [] case = "quotes_by_author" -> [arg EXCEPT !.s = fetch_by_author_val(arg.s)]
      [] OTHER -> arg

\* run_model for the cases that run one query
run_model(case, arg) ==
    /\ pc = "idle"
    /\ case \in Cases \ {"comments_random_quote"}
    /\ IF case = "quotes_by_tag" /\ arg.t # "str"
       THEN \* val = ("%" + tag + "%",) raises TypeError before any query
            /\ ret' = Raised("run_model", case, arg)
            /\ pc' = "done"
            /\ UNCHANGED <<schema, tables, conns, locals, last, proc>>
       ELSE Query("run_model", case, arg, SqlOf(case), QueryVal(case, arg))
    /\ rec' = rec

\* names that are none of the ten cases
OtherCases == {"no_such_case", "X_QUOTES"}

\* a default case that falls out of the match and returns None
DefaultResultNone == NoneV

\* case _: return []
DefaultResult == ListV(<<>>)

\* run_model for any other name
run_model_default(case, arg) ==
    /\ pc = "idle"
    /\ case \notin Cases
    /\ ret' = Returned("run_model", case, arg, <<DefaultResult>>)
    /\ pc' = "done"
    /\ UNCHANGED <<schema, tables, conns, locals, last, rec, proc>>

NoLocals == [value |-> 0, random_quote |-> NoneV]

\* comments_random_quote, first query: rand_id, then value = rand_id[0]['id_quote']
comments_random_quote ==
    /\ pc = "idle"
    /\ \E o \in QueryOutcomes("rand_id", NoArg) :
         LET rand_id == sql_query(o)
         IN /\ SqlCall("sql_query", o, <<rand_id>>)
            /\ IF rand_id.t # "list" \/ rand_id.rows = <<>>
               THEN \* None[0] is a TypeError, [][0] an IndexError
                    /\ ret' = Raised("run_model", "comments_random_quote", NoArg)
                    /\ pc' = "done"
                    /\ locals' = locals
               ELSE /\ pc' = "crq_fetch_by_id"
                    /\ locals' = [value |-> rand_id.rows[1].id_quote, random_quote |-> NoneV]
                    /\ ret' = [op |-> "run_model", case |-> "comments_random_quote",
                               arg |-> NoArg, inp |-> NoRecord, kind |-> "running",
                               val |-> <<>>]
    /\ UNCHANGED <<schema, tables, rec, proc>>

\* a comments_random_quote that goes on to the comments without fetching the
\* quote
comments_random_quote_fetch_skipped ==
    /\ pc = "crq_fetch_by_id"
    /\ locals' = [locals EXCEPT !.random_quote = ListV(<<>>)]
    /\ pc' = "crq_comments"
    /\ UNCHANGED <<schema, tables, conns, rec, ret, last, proc>>

\* comments_random_quote: random_quote = Quote.fetch_by_id(self.db, value)
comments_random_quote_fetch ==
    /\ pc = "crq_fetch_by_id"
    /\ \E o \in QueryOutcomes("quote_fetch_by_id", IntArg(locals.value)) :
         LET res == sql_query(o)
         IN /\ SqlCall("sql_query", o, <<res>>)
            /\ IF res.t = "raise"
               THEN /\ ret' = Raised("run_model", "comments_random_quote", NoArg)
                    /\ pc' = "done"
                    /\ locals' = NoLocals
               ELSE /\ locals' = [locals EXCEPT !.random_quote = res]
                    /\ pc' = "crq_comments"
                    /\ ret' = ret
    /\ UNCHANGED <<schema, tables, rec, proc>>

\* a comments_random_quote that returns the quote first
comments_random_quote_comments_swapped ==
    /\ pc = "crq_comments"
    /\ \E o \in QueryOutcomes("comment_by_quote_id", IntArg(locals.value)) :
         LET results == sql_query(o)
         IN /\ SqlCall("sql_query", o, <<results>>)
            /\ ret' = IF results.t = "raise"
                      THEN Raised("run_model", "comments_random_quote", NoArg)
                      ELSE Returned("run_model", "comments_random_quote", NoArg,
                                    <<locals.random_quote, results>>)
    /\ pc' = "done"
    /\ locals' = NoLocals
    /\ UNCHANGED <<schema, tables, rec, proc>>

\* comments_random_quote: the comments query, then return results, random_quote
comments_random_quote_comments ==
    /\ pc = "crq_comments"
    /\ \E o \in QueryOutcomes("comment_by_quote_id", IntArg(locals.value)) :
         LET results == sql_query(o)
         IN /\ SqlCall("sql_query", o, <<results>>)
            /\ ret' = IF results.t = "raise"
                      THEN Raised("run_model", "comments_random_quote", NoArg)
                      ELSE Returned("run_model", "comments_random_quote", NoArg,
                                    <<results, locals.random_quote>>)
    /\ pc' = "done"
    /\ locals' = NoLocals
    /\ UNCHANGED <<schema, tables, rec, proc>>

\* the records another client of the same database may save: a quote, of the
\* author or of none, and a comment to a quote
OtherClientRecords ==
    {q \in QuoteRecords :
       q.id = NULL /\ q.f.content = "D" /\ q.f.tags = << <<"t">>, <<"x">> >>}
    \cup {[c EXCEPT !.f.quote_id = q] :
            c \in {r \in CommentRecords : r.id = NULL}, q \in 1..(MaxQuotes + 1)}

\* another client's db_save of r, its INSERT running between two queries of a
\* comments_random_quote of this client; a comment refers to a quote that
\* exists
other_client_db_save(r) ==
    /\ pc \in {"crq_fetch_by_id", "crq_comments"}
    /\ last.others < MaxOthers
    /\ r.type = "Comment" => r.f.quote_id \in 1..Len(quote)
    /\ quote' = IF r.type = "Quote" THEN InsertRow(quote, InsertVal(r)) ELSE quote
    /\ comment' = IF r.type = "Comment" THEN InsertRow(comment, InsertVal(r)) ELSE comment
    /\ last' = [last EXCEPT !.others = @ + 1]
    /\ UNCHANGED <<schema, author, metadata, conns, pc, locals, rec, ret, proc>>

\* the caller has its result (or has caught the exception) and goes on: the
\* record it saved and the value it got are dropped
CallerContinues ==
    /\ pc = "done"
    /\ pc' = "idle"
    /\ rec' = NoRecord
    /\ ret' = NoResult
    /\ last' = NoCall
    /\ UNCHANGED <<schema, tables, conns, locals, proc>>

-----------------------------------------------------------------------------
(* Construction of the records: the pydantic declarations of the four classes *)

\* a keyword argument the caller does not give
Omitted == [t |-> "omitted", n |-> 0, s |-> <<>>]
ListArg(l) == [t |-> "list", n |-> 0, s |-> l]
DateArg == [t |-> "date", n |-> 0, s |-> <<>>]

\* an integer type that admits 0
NonNegativeInt(v) == v.t = "int" /\ v.n >= 0

\* pydantic.PositiveInt: an int greater than 0
PositiveInt(v) == v.t = "int" /\ v.n > 0

\* a str constrained to at least one character
StrMinLength1(v) == v.t = "str" /\ v.s # <<>>

\* str: any string, the empty one included
Str(v) == v.t = "str"

\* pydantic.EmailStr: one @, a local part, and a domain of at least two
\* labels separated by periods, none of them empty
EmailStr(v) ==
    /\ v.t = "str"
    /\ Cardinality({i \in 1..Len(v.s) : v.s[i] = "@"}) = 1
    /\ LET at == CHOOSE i \in 1..Len(v.s) : v.s[i] = "@"
           domain == SubSeq(v.s, at + 1, Len(v.s))
       IN /\ at > 1
          /\ v.s[1] # "." /\ v.s[at - 1] # "."
          /\ Len(domain) >= 3
          /\ domain[1] # "." /\ domain[Len(domain)] # "."
          /\ \E i \in 1..Len(domain) : domain[i] = "."
          /\ \A i \in 1..(Len(domain) - 1) : ~(domain[i] = "." /\ domain[i + 1] = ".")

\* one declared field: its name, its type, whether the type is Optional[...]
\* and whether it has no default (Field(...))
Field(name, type, optional, required) ==
    [name |-> name, type |-> type, optional |-> optional, required |-> required]

\* the fields each class declares
FieldsOf(class) ==
    CASE class = "Quote" ->
           << Field("id_quote", "PositiveInt", TRUE, FALSE),
              Field("content", "str", FALSE, TRUE),
              Field("author_id", "PositiveInt", TRUE, FALSE),
              Field("tags", "List[str]", FALSE, TRUE) >>
      [] class = "Author" ->
           << Field("id_author", "PositiveInt", TRUE, FALSE),
              Field("name", "str", FALSE, TRUE),
              Field("birth_date", "date", FALSE, TRUE),
              Field("birth_city", "str", TRUE, TRUE),
              Field("birth_state", "str", TRUE, TRUE),
              Field("birth_country", "str", TRUE, TRUE),
              Field("description", "str", FALSE, TRUE) >>
      [] class = "Comment" ->
           << Field("id_comment", "PositiveInt", TRUE, FALSE),
              Field("quote_id", "PositiveInt", FALSE, TRUE),
              Field("title", "str", FALSE, TRUE),
              Field("details", "str", FALSE, TRUE),
              Field("user_email", "EmailStr", FALSE, TRUE) >>
      [] class = "Metadata" ->
           << Field("id_key", "PositiveInt", TRUE, FALSE),
              Field("key_name", "str", FALSE, TRUE),
              Field("key_value", "List[str]", FALSE, TRUE) >>

\* the name of the id field of each class
IdField(class) == FieldsOf(class)[1].name

\* whether pydantic accepts value v for the declared field fd
FieldOK(fd, v) ==
    IF v.t = "omitted" THEN ~fd.required
    ELSE IF v.t = "None" THEN fd.optional
    ELSE CASE fd.type = "PositiveInt" -> PositiveInt(v)
           [] fd.type = "str" -> Str(v)
           [] fd.type = "EmailStr" -> EmailStr(v)
           [] fd.type = "date" -> v.t = "date"
           [] fd.type = "List[str]" -> v.t = "list"

\* the keyword arguments a caller may construct each class with
IdInputs == {Omitted, NoArg, IntArg(-1), IntArg(0), IntArg(1)}
TextInputs == {Omitted, NoArg, StrArg(<<>>), StrArg(<<"C">>)}
EmailInputs ==
    {Omitted, StrArg(<<"u", "@", "e", ".", "c">>), StrArg(<<"u", "e", ".", "c">>),
     StrArg(<<"u", "@", "e">>), StrArg(<<"@", "e", ".", "c">>)}
ListInputs == {Omitted, ListArg(<<>>), ListArg(<< <<"t">> >>)}

Kwargs(class) ==
    CASE class = "Quote" ->
           [id_quote : IdInputs, content : TextInputs,
            author_id : {Omitted, IntArg(0), IntArg(1)}, tags : ListInputs]
      [] class = "Author" ->
           [id_author : IdInputs, name : TextInputs, birth_date : {DateArg},
            birth_city : {StrArg(<<"c">>)}, birth_state : {Omitted, NoArg, StrArg(<<>>)},
            birth_country : {NoArg}, description : TextInputs]
      [] class = "Comment" ->
           [id_comment : IdInputs, quote_id : IdInputs, title : TextInputs,
            details : TextInputs, user_email : EmailInputs]
      [] class = "Metadata" ->
           [id_key : IdInputs, key_name : TextInputs, key_value : ListInputs]

Classes == {"Quote", "Author", "Comment", "Metadata"}

\* Class(**kw): pydantic validates every declared field; one that fails
\* raises ValidationError and no record exists, otherwise the record holds the
\* values given and None for the fields left to their default
construct(class, kw) ==
    /\ pc = "idle"
    /\ LET fds == FieldsOf(class)
           given == [class |-> class, kw |-> kw]
       IN IF \A k \in 1..Len(fds) : FieldOK(fds[k], kw[fds[k].name])
          THEN /\ rec' = [type |-> class,
                          id |-> kw[IdField(class)].n,
                          f |-> [n \in DOMAIN kw |->
                                   IF kw[n].t = "omitted" THEN NoArg ELSE kw[n]]]
               /\ ret' = [op |-> "construct", case |-> class, arg |-> NoArg,
                          inp |-> given, kind |-> "return", val |-> <<>>]
          ELSE /\ rec' = NoRecord
               /\ ret' = [op |-> "construct", case |-> class, arg |-> NoArg,
                          inp |-> given, kind |-> "raise", val |-> <<>>]
    /\ pc' = "done"
    /\ UNCHANGED <<schema, tables, conns, locals, last, proc>>

-----------------------------------------------------------------------------
(* Provisioning: MySQLDB.create_database and MySQLDB.create_table *)

\* self.database, a name with a character that LIKE reads as a wildcard (as
\* happy_quotes has), and the name of another database of the server
Database == <<"h", "_">>
OtherDatabase == <<"h", "q">>

\* the names of the tables that the statements of happy_models.py use
TableName(type) ==
    CASE type = "Quote" -> <<"q", "u", "o", "t", "e">>
      [] type = "Author" -> <<"a", "u", "t", "h", "o", "r">>
      [] type = "Comment" -> <<"c", "o", "m", "m", "e", "n", "t">>
      [] type = "Metadata" -> <<"m", "e", "t", "a", "d", "a", "t", "a">>

\* a table_name with a wildcard character, as quote_tags would have; the model
\* keeps no rows for it
ExtraTable == <<"q", "u", "o", "t", "_">>

TableNames == {TableName(type) : type \in Classes} \cup {ExtraTable}

\* the rows of the table of this name
RowsOf(name) ==
    CASE name = TableName("Quote") -> quote
      [] name = TableName("Author") -> author
      [] name = TableName("Comment") -> comment
      [] name = TableName("Metadata") -> metadata
      [] OTHER -> <<>>

\* the server as the program expects it: the database and its four tables
Provisioned == [databases |-> {Database}, tables |-> {TableName(type) : type \in Classes}]

\* Python's True and False, and the arguments of a provisioning call
TrueV == [t |-> "bool", rows |-> <<>>, n |-> 1]
FalseV == [t |-> "bool", rows |-> <<>>, n |-> 0]
ProvisionArg(name, overwrite) == [t |-> "bool", n |-> IF overwrite THEN 1 ELSE 0, s |-> name]

\* SHOW DATABASES LIKE '{name}', SHOW TABLES LIKE '{name}': the names that
\* match name as a pattern
ShowLike(names, name) == {n \in names : Like(n, name)}

\* the statement of the try block at which the driver raises Error, if any
Stages == {"none", "connect", "show", "drop", "create"}

\* create_table, print(... already exists ...) and a bare return
create_table_found_return == NoneV

\* the try block that create_database and create_table share, for the names
\* that exist: SHOW ... LIKE, fetchone(), DROP when a row came and overwrite,
\* a return of found when a row came and not overwrite, CREATE; fail is the
\* statement at which Error is raised, DROP of a name that does not exist
\* raises Error by itself. The result: the names that exist afterwards,
\* whether name was dropped, and the value returned
ProvisionRun(names, name, overwrite, fail, found) ==
    LET result == ShowLike(names, name) # {}
        out(connected, error, dropped, after, value) ==
            [connected |-> connected, error |-> error, dropped |-> dropped,
             names |-> after, value |-> value]
    IN IF fail = "connect" THEN out(FALSE, TRUE, FALSE, names, FalseV)
       ELSE IF fail = "show" THEN out(TRUE, TRUE, FALSE, names, FalseV)
       ELSE IF result /\ ~overwrite THEN out(TRUE, FALSE, FALSE, names, found)
       ELSE IF result /\ (fail = "drop" \/ name \notin names)
       THEN out(TRUE, TRUE, FALSE, names, FalseV)
       ELSE IF fail = "create" THEN out(TRUE, TRUE, name \in names, names \ {name}, FalseV)
       ELSE out(TRUE, FALSE, name \in names, names \cup {name}, TrueV)

\* MySQLDB.create_database(overwrite): the connection names no database; a
\* database that is dropped takes its tables and their rows with it
create_database(overwrite) ==
    /\ pc = "idle"
    /\ \E fail \in Stages :
         LET o == ProvisionRun(schema.databases, Database, overwrite, fail, TrueV)
             keep(t) == IF o.dropped THEN <<>> ELSE t
         IN /\ SqlCall("create_database", o, <<o.value>>)
            /\ schema' = [databases |-> o.names,
                          tables |-> IF o.dropped THEN {} ELSE schema.tables]
            /\ quote' = keep(quote)
            /\ author' = keep(author)
            /\ comment' = keep(comment)
            /\ metadata' = keep(metadata)
            /\ ret' = Returned("create_database", "", ProvisionArg(Database, overwrite),
                               <<o.value>>)
    /\ pc' = "done"
    /\ UNCHANGED <<locals, rec, proc>>

\* MySQLDB.create_table(table_name, sql_code, overwrite), sql_code being the
\* CREATE TABLE statement for table_name: the connection names self.database
\* and raises Error when that database does not exist
create_table(table_name, overwrite) ==
    /\ pc = "idle"
    /\ \E fail \in Stages :
         LET o == ProvisionRun(schema.tables, table_name, overwrite,
                               IF Database \in schema.databases THEN fail ELSE "connect",
                               create_table_found_return)
             keep(name, t) == IF o.dropped /\ name = table_name THEN <<>> ELSE t
         IN /\ SqlCall("create_table", o, <<o.value>>)
            /\ schema' = [schema EXCEPT !.tables = o.names]
            /\ quote' = keep(TableName("Quote"), quote)
            /\ author' = keep(TableName("Author"), author)
            /\ comment' = keep(TableName("Comment"), comment)
            /\ metadata' = keep(TableName("Metadata"), metadata)
            /\ ret' = Returned("create_table", "", ProvisionArg(table_name, overwrite),
                               <<o.value>>)
    /\ pc' = "done"
    /\ UNCHANGED <<locals, rec, proc>>

-----------------------------------------------------------------------------
(* The presentation layer: MyHappyGUI.run_controller and what it shows *)

\* a split at every comma
RECURSIVE SplitComma(_)
SplitComma(s) ==
    IF \E i \in 1..Len(s) : s[i] = ","
    THEN LET i == CHOOSE i \in 1..Len(s) : s[i] = "," /\ \A j \in 1..(i - 1) : s[j] # ","
         IN <<SubSeq(s, 1, i - 1)>> \o SplitComma(SubSeq(s, i + 1, Len(s)))
    ELSE <<s>>

\* str.split(', ')
RECURSIVE SplitCommaSpace(_)
SplitCommaSpace(s) ==
    IF \E i \in 1..(Len(s) - 1) : s[i] = "," /\ s[i + 1] = " "
    THEN LET i == CHOOSE i \in 1..(Len(s) - 1) :
                    /\ s[i] = "," /\ s[i + 1] = " "
                    /\ \A j \in 1..(i - 1) : ~(s[j] = "," /\ s[j + 1] = " ")
         IN <<SubSeq(s, 1, i - 1)>> \o SplitCommaSpace(SubSeq(s, i + 2, Len(s)))
    ELSE <<s>>

\* comments, quote = self.model.run_model('comments_random_quote')
Unpack(val) == [comments |-> val[1], quote |-> val[2]]

\* the ways a call of run_model for a one-query case can end, the GUI passing
\* no value, an int or a str as the case asks
RunModelValues(case, arg) ==
    {sql_query(o) : o \in QueryOutcomes(SqlOf(case), QueryVal(case, arg))}

\* the exception that v[0] raises, if any
Index0Error(v) ==
    IF v.t = "raise" THEN "Error"
    ELSE IF v.t # "list" THEN "TypeError"
    ELSE IF v.rows = <<>> THEN "IndexError"
    ELSE "none"

\* the exception that  for x in v  raises, if any
IterError(v) ==
    IF v.t = "raise" THEN "Error" ELSE IF v.t # "list" THEN "TypeError" ELSE "none"

\* the ways run_model('comments_random_quote') can end: the exception of
\* rand_id[0], or the pair results, random_quote
CommentsRandomQuote ==
    UNION {
      LET rand_id == sql_query(o1)
      IN IF Index0Error(rand_id) # "none"
         THEN {[exc |-> Index0Error(rand_id), results |-> rand_id, random_quote |-> NoneV]}
         ELSE {[exc |-> "none", results |-> sql_query(o3), random_quote |-> sql_query(o2)] :
                 o2 \in QueryOutcomes("quote_fetch_by_id", IntArg(rand_id.rows[1].id_quote)),
                 o3 \in QueryOutcomes("comment_by_quote_id", IntArg(rand_id.rows[1].id_quote))}
      : o1 \in QueryOutcomes("rand_id", NoArg) }

\* the lists of strings a caller may store, entries with commas and blanks
\* among them
Strings == UNION {[1..k -> {"a", ",", " "}] : k \in 0..MaxStrLen}
\* the lists of n entries; a caller stores lists of none, one or two
StringLists(n) == [1..n -> Strings]
ListLens == {0, 1, 2}

ListRecord(type, l) ==
    IF type = "Quote"
    THEN [type |-> "Quote", id |-> NULL,
          f |-> [content |-> "C", author_id |-> NULL, tags |-> l]]
    ELSE [type |-> "Metadata", id |-> NULL,
          f |-> [key_name |-> <<"all_tags">>, key_value |-> l]]

\* the consuming side: the string of the row just saved, split on ", "
\* (all_tags[0]['key_value'].split(', '))
key_value_split ==
    /\ pc = "done"
    /\ ret.op = "db_save" /\ ret.kind = "return" /\ Truthy(ret.val[2])
    /\ rec.type \in {"Quote", "Metadata"}
    /\ LET row == TableOf(rec.type)[rec.id]
           stored == IF rec.type = "Quote" THEN row.tags ELSE row.key_value
       IN ret' = Returned("split", rec.type, NoArg, <<SplitCommaSpace(stored)>>)
    /\ pc' = "done"
    /\ UNCHANGED <<schema, tables, conns, locals, rec, last, proc>>

\* the databases top5_authors is run on: up to MaxAuthors authors of different
\* names (or the second a namesake of the first), and of each author no quote,
\* one or two
QuoteCounts == {0, 1, 2}

Top5Author(i, namesake) ==
    [name |-> [k \in 1..(IF namesake /\ i = 2 THEN 1 ELSE i) |-> "a"],
     birth_date |-> "1900-01-01", birth_city |-> "city", birth_state |-> NULL,
     birth_country |-> "country", description |-> "bio"]

RECURSIVE Top5Quotes(_, _)
Top5Quotes(counts, n) ==
    IF n = 0 THEN <<>>
    ELSE Top5Quotes(counts, n - 1)
         \o [k \in 1..counts[n] |-> [content |-> "C", author_id |-> n, tags |-> <<"t">>]]

Top5Database(n, counts, namesake) ==
    [quote |-> Top5Quotes(counts, n),
     author |-> [i \in 1..n |-> Top5Author(i, namesake)],
     comment |-> <<>>, metadata |-> <<>>]

\* what one run of the controller leaves for the user to see: the exception it
\* ended with, the value the model gave last, whether the response text was
\* cleared, the rows put into it since, and the last line put to the console
Out(exc, results, cleared, items, more, console) ==
    [exc |-> exc, results |-> results, cleared |-> cleared, items |-> items,
     more |-> more, console |-> console]

NoOut == Out("none", NoneV, FALSE, <<>>, <<>>, "")

\* print_quotes: clear_response(), then a block for every quote of the list;
\* console is the line the caller put to the console before ("Fetching..."
\* stands for the Fetching line of the case)
print_quotes(quotes_list, console) ==
    IF IterError(quotes_list) # "none"
    THEN Out(IterError(quotes_list), quotes_list, TRUE, <<>>, <<>>, console)
    ELSE Out("none", quotes_list, TRUE, quotes_list.rows, <<>>, "All quotes printed.")

\* what the user does in the pop-ups of one run: the line picked in the list
\* (0: none, or Cancel), the number typed (0: none), and the two draws of
\* random.choice in 'surprise'
Inputs == [sel : 0..2, number : {0, 1, 3}, surprise : {"authors", "tags"}]

\* the cases that pick from a list of the metadata table, the key they read and
\* the query they run with the pick
SelectKey(query_case, inp) ==
    IF query_case \in {"quotes_by_author", "author_bio"} THEN <<"all_authors">>
    ELSE <<"all_tags">>

\* the block for every author of the list
author_bio(results) ==
    IF IterError(results) # "none"
    THEN Out(IterError(results), results, TRUE, <<>>, <<>>, "Fetching 'author_bio'...")
    ELSE Out("none", results, TRUE, results.rows, <<>>, "Printed the author's biography.")

\* quotes_by_author, quotes_by_tag and author_bio: the list of the metadata
\* table, the user's pick, the query for the pick
SelectFromMetadata(query_case, inp) ==
    UNION {
      IF Index0Error(all) # "none"
      THEN {Out(Index0Error(all), all, FALSE, <<>>, <<>>, "Make your selection...")}
      ELSE LET list == SplitCommaSpace(all.rows[1].key_value)
               pick == Min(inp.sel, Len(list))
           IN IF pick = 0
              THEN {Out("none", all, FALSE, <<>>, <<>>, "Nothing was selected.")}
              ELSE {IF query_case = "author_bio" THEN author_bio(results)
                    ELSE print_quotes(results, "Fetching...") :
                      results \in RunModelValues(query_case, StrArg(list[pick]))}
      : all \in RunModelValues("metadata", StrArg(SelectKey(query_case, inp))) }

\* 'surprise': both lists are read and split, all_tags first, then
\* random.choice draws the kind and the entry
surprise(inp) ==
    UNION {
      IF Index0Error(all_tags) # "none"
      THEN {Out(Index0Error(all_tags), all_tags, FALSE, <<>>, <<>>, "")}
      ELSE IF Index0Error(all_authors_names) # "none"
      THEN {Out(Index0Error(all_authors_names), all_authors_names, FALSE, <<>>, <<>>, "")}
      ELSE LET list == SplitCommaSpace(IF inp.surprise = "authors"
                                       THEN all_authors_names.rows[1].key_value
                                       ELSE all_tags.rows[1].key_value)
               pick == Min(inp.sel + 1, Len(list))
           IN {print_quotes(results, "Fetching surprise...") :
                 results \in RunModelValues(IF inp.surprise = "authors" THEN "quotes_by_author"
                                            ELSE "quotes_by_tag",
                                            StrArg(list[pick]))}
      : all_tags \in RunModelValues("metadata", StrArg(<<"all_tags">>)),
        all_authors_names \in RunModelValues("metadata", StrArg(<<"all_authors">>)) }

\* the ways run_controller(query_case) can end, the user doing inp
ControllerOutcomes(query_case, inp) ==
    CASE query_case \in {"quotes_by_author", "quotes_by_tag", "author_bio"} ->
           SelectFromMetadata(query_case, inp)
      [] query_case = "surprise" -> surprise(inp)
      [] query_case = "x_quotes" ->
           IF inp.number = 0
           THEN {Out("none", NoneV, FALSE, <<>>, <<>>, "No valid input was entered.")}
           ELSE {print_quotes(results, "Fetching 'x_quotes'...") :
                   results \in RunModelValues("x_quotes", IntArg(inp.number))}
      [] query_case \in {"random_quote", "all_quotes"} ->
           {print_quotes(results, "Fetching...") : results \in RunModelValues(query_case, NoArg)}
      [] query_case = "total_quotes" ->
           {IF Index0Error(results) # "none"
            THEN Out(Index0Error(results), results, TRUE, <<>>, <<>>, "Fetching 'total_quotes'...")
            ELSE Out("none", results, TRUE, <<results.rows[1]>>, <<>>, "Printed 'total_quotes'.") :
              results \in RunModelValues("total_quotes", NoArg)}
      [] query_case = "top5_authors" ->
           {IF IterError(results) # "none"
            THEN Out(IterError(results), results, TRUE, <<>>, <<>>, "Fetching 'top5_authors'...")
            ELSE Out("none", results, TRUE, results.rows, <<>>, "Printed 'top5_authors'.") :
              results \in RunModelValues("top5_authors", NoArg)}
      [] query_case = "comments_random_quote" ->
           {IF r.exc # "none"
            THEN Out(r.exc, r.results, FALSE, <<>>, <<>>, "Fetching 'comments_random_quote'...")
            ELSE IF Index0Error(r.random_quote) # "none"
            THEN Out(Index0Error(r.random_quote), r.random_quote, TRUE, <<>>, <<>>,
                     "Fetching 'comments_random_quote'...")
            ELSE IF IterError(r.results) # "none"
            THEN Out(IterError(r.results), r.results, TRUE, <<r.random_quote.rows[1]>>, <<>>,
                     "Fetching 'comments_random_quote'...")
            ELSE Out("none", r.results, TRUE, <<r.random_quote.rows[1]>>, r.results.rows,
                     "Printed the details for the quote's comments.") :
              r \in CommentsRandomQuote}
      [] query_case = "qotd" ->
           {IF Index0Error(results) # "none"
            THEN Out(Index0Error(results), results, FALSE, <<>>, <<>>, "Fetching 'quote_of_the_day'...")
            ELSE Out("none", results, FALSE, <<results.rows[1]>>, <<>>,
                     "Fetching 'quote_of_the_day'...") :
              results \in RunModelValues("random_quote", NoArg)}
      [] OTHER -> {Out("none", NoneV, FALSE, <<>>, <<>>, "Unknown query number!")}

-----------------------------------------------------------------------------
(* The program: happyquotes_main.py, the GUI's construction and its main loop *)

\* the process: what test_connection returned, the results of the query for
\* the schema, the window, where sys.stdout points, whether run_model has been
\* called, and what the last run of the controller has left on the screen
NoProc ==
    [connected |-> "unset", results |-> NoneV, window |-> "none", stdout |-> "original",
     dispatched |-> FALSE, query_case |-> "", out |-> NoOut]

\* MySQLDB.test_connection, and main's exit when it returns False
test_connection ==
    /\ pc = "main"
    /\ \E connected \in BOOLEAN :
         LET c == NewConn(conns)
         IN /\ conns' = IF connected THEN FinallyClose(conns \cup {c}, c) ELSE conns
            /\ proc' = [proc EXCEPT !.connected = IF connected THEN "True" ELSE "False"]
            /\ pc' = IF connected THEN "main_query" ELSE "exited"
    /\ UNCHANGED <<schema, tables, locals, rec, ret, last>>

\* the answers the server may give to the query for the schema DB_NAME
SchemaOutcomes ==
    {[connected |-> c, error |-> TRUE, ids |-> <<>>, rows |-> <<>>] : c \in BOOLEAN}
    \cup {[connected |-> TRUE, error |-> FALSE, ids |-> <<>>, rows |-> r] :
            r \in {<<>>, <<[SCHEMA_NAME |-> "DB_NAME"]>>}}

\* a check of the database that goes on to the GUI whatever the results
schema_query_unchecked ==
    /\ pc = "main_query"
    /\ \E o \in SchemaOutcomes :
         LET results == sql_query(o)
         IN /\ SqlCall("sql_query", o, <<results>>)
            /\ proc' = [proc EXCEPT !.results = results]
            /\ pc' = "main_gui"
    /\ UNCHANGED <<schema, tables, locals, rec, ret>>

\* results = model.db.sql_query(sql_query, (DB_NAME,)), and main's exit when
\* results is None or empty
schema_query ==
    /\ pc = "main_query"
    /\ \E o \in SchemaOutcomes :
         LET results == sql_query(o)
         IN /\ SqlCall("sql_query", o, <<results>>)
            /\ proc' = [proc EXCEPT !.results = results]
            /\ pc' = IF Truthy(results) THEN "main_gui" ELSE "exited"
    /\ UNCHANGED <<schema, tables, locals, rec, ret>>

\* the connections after the calls of sql_query that a run of the controller
\* makes: each call closes the connection it opened
AfterQueries(open) == FinallyClose(open \cup {NewConn(open)}, NewConn(open))

\* app = MyHappyGUI(model): the window, the redirection of stdout, and
\* print_welcome with its run_controller('qotd'); an exception in it ends the
\* program
MyHappyGUI ==
    /\ pc = "main_gui"
    /\ \E out \in ControllerOutcomes("qotd", CHOOSE inp \in Inputs : TRUE) :
         /\ proc' = [proc EXCEPT !.window = "open", !.stdout = "console",
                                 !.dispatched = TRUE, !.query_case = "qotd", !.out = out]
         /\ pc' = IF out.exc = "none" THEN "mainloop" ELSE "crashed"
    /\ conns' = AfterQueries(conns)
    /\ UNCHANGED <<schema, tables, locals, rec, ret, last>>

\* the entries of the Queries menu
MenuCases ==
    {"quotes_by_author", "x_quotes", "random_quote", "total_quotes", "quotes_by_tag",
     "top5_authors", "comments_random_quote", "author_bio", "all_quotes", "surprise"}

\* the user picks an entry of the Queries menu: run_controller(query_case); Tk
\* reports an exception of the callback and the main loop goes on
run_controller(query_case, inp) ==
    /\ pc = "mainloop"
    /\ \E out \in ControllerOutcomes(query_case, inp) :
         proc' = [proc EXCEPT !.query_case = query_case, !.out = out]
    /\ pc' = "callback"
    /\ conns' = AfterQueries(conns)
    /\ UNCHANGED <<schema, tables, locals, rec, ret, last>>

\* the callback has returned to the main loop
mainloop ==
    /\ pc = "callback"
    /\ pc' = "mainloop"
    /\ proc' = [proc EXCEPT !.query_case = "", !.out = NoOut]
    /\ UNCHANGED <<schema, tables, conns, locals, rec, ret, last>>

\* an on_closing that destroys the window and leaves sys.stdout as it is
on_closing_destroy_only(yes) ==
    /\ pc = "mainloop"
    /\ IF yes
       THEN /\ proc' = [proc EXCEPT !.window = "destroyed"]
            /\ pc' = "goodbye"
       ELSE UNCHANGED <<proc, pc>>
    /\ UNCHANGED <<schema, tables, conns, locals, rec, ret, last>>

\* on_closing: the quit dialog; on yes stdout is restored and the window
\* destroyed, which ends the main loop
on_closing(yes) ==
    /\ pc = "mainloop"
    /\ IF yes
       THEN /\ proc' = [proc EXCEPT !.stdout = "original", !.window = "destroyed"]
            /\ pc' = "goodbye"
       ELSE UNCHANGED <<proc, pc>>
    /\ UNCHANGED <<schema, tables, conns, locals, rec, ret, last>>

\* print("Thank you for using Happy Quotes! Goodbye!") and the end of main
goodbye ==
    /\ pc = "goodbye"
    /\ pc' = "exited"
    /\ UNCHANGED <<schema, tables, conns, locals, rec, ret, last, proc>>

\* the databases the program may be started on: an author or none, n quotes
\* of that author or of none, a comment to the first quote or
\* none, and the two lists of the metadata table or none
StoredQuotes ==
    {InsertVal([type |-> "Quote", id |-> NULL,
                f |-> [content |-> "C", author_id |-> a, tags |-> << <<"t">>, <<"x">> >>]]) :
       a \in AuthorRefs}
StoredAuthors == {InsertVal(r) : r \in {a \in AuthorRecords : a.f.name = <<"a">> /\ a.id = NULL}}
StoredComments == {InsertVal(r) : r \in {c \in CommentRecords : c.id = NULL}}
StoredMetadata ==
    << InsertVal([type |-> "Metadata", id |-> NULL,
                  f |-> [key_name |-> <<"all_authors">>, key_value |-> << <<"a">>, <<"b">> >>]]),
       InsertVal([type |-> "Metadata", id |-> NULL,
                  f |-> [key_name |-> <<"all_tags">>, key_value |-> << <<"t">>, <<"y">> >>]]) >>

Databases(n) ==
    {db \in [quote : [1..n -> StoredQuotes],
             author : {<<>>} \cup {<<a>> : a \in StoredAuthors},
             comment : {<<>>} \cup {<<c>> : c \in StoredComments},
             metadata : {<<>>, StoredMetadata}] :
       /\ \A i \in 1..Len(db.quote) : db.quote[i].author_id \in {NULL} \cup 1..Len(db.author)
       /\ db.comment # <<>> => db.quote # <<>>}

-----------------------------------------------------------------------------

Init ==
    /\ quote = <<>>
    /\ author = <<>>
    /\ comment = <<>>
    /\ metadata = <<>>
    /\ conns = {}
    /\ pc = "idle"
    /\ locals = NoLocals
    /\ rec = NoRecord
    /\ ret = NoResult
    /\ last = NoCall
    /\ proc = NoProc
    /\ schema = Provisioned

Next ==
    \/ \E r \in QuoteRecords \cup AuthorRecords \cup CommentRecords \cup MetadataRecords :
         db_save(r)
    \/ fetch_by_id
    \/ \E case \in Cases : \E arg \in ArgsOf(case) : run_model(case, arg)
    \/ \E case \in OtherCases : \E arg \in {NoArg, IntArg(1), StrArg(<<"t">>)} :
         run_model_default(case, arg)
    \/ comments_random_quote
    \/ comments_random_quote_fetch
    \/ comments_random_quote_comments
    \/ CallerContinues

Spec == Init /\ [][Next]_vars

\* a caller that constructs records, one after the other
NextConstruct ==
    \/ \E class \in Classes : \E kw \in Kwargs(class) : construct(class, kw)
    \/ CallerContinues

SpecConstruct == Init /\ [][NextConstruct]_vars

\* a list is stored into the empty database and split again
NextRoundTrip ==
    \/ /\ TotalRows = 0
       /\ pc = "idle"
       /\ \E n \in ListLens : \E l \in StringLists(n) : \E type \in {"Quote", "Metadata"} :
            db_save(ListRecord(type, l))
    \/ key_value_split
    \/ CallerContinues

SpecRoundTrip == Init /\ [][NextRoundTrip]_vars

\* top5_authors asked of a database that was filled before
InitTop5 ==
    /\ \E n \in 0..MaxAuthors : \E counts \in [1..n -> QuoteCounts] :
         \E namesake \in {b \in BOOLEAN : b => n >= 2} :
           LET db == Top5Database(n, counts, namesake)
           IN /\ quote = db.quote
              /\ author = db.author
              /\ comment = db.comment
              /\ metadata = db.metadata
    /\ conns = {}
    /\ pc = "idle"
    /\ locals = NoLocals
    /\ rec = NoRecord
    /\ ret = NoResult
    /\ last = NoCall
    /\ proc = NoProc
    /\ schema = Provisioned

NextTop5 ==
    \/ run_model("top5_authors", NoArg)
    \/ CallerContinues

SpecTop5 == InitTop5 /\ [][NextTop5]_vars

\* the program started on a database that was filled before
InitMain ==
    /\ \E n \in 0..MaxQuotes : \E db \in Databases(n) :
         /\ quote = db.quote
         /\ author = db.author
         /\ comment = db.comment
         /\ metadata = db.metadata
    /\ conns = {}
    /\ pc = "main"
    /\ locals = NoLocals
    /\ rec = NoRecord
    /\ ret = NoResult
    /\ last = NoCall
    /\ proc = NoProc
    /\ schema = Provisioned

NextMain ==
    \/ test_connection
    \/ schema_query
    \/ MyHappyGUI
    \/ \E query_case \in MenuCases : \E inp \in Inputs : run_controller(query_case, inp)
    \/ mainloop
    \/ \E yes \in BOOLEAN : on_closing(yes)
    \/ goodbye

SpecMain == InitMain /\ [][NextMain]_vars

\* one call of comments_random_quote on a database that was filled before,
\* while another client saves records
InitConcurrent ==
    /\ \E n \in 0..MaxQuotes : \E db \in {d \in Databases(n) : d.metadata = <<>>} :
         /\ quote = db.quote
         /\ author = db.author
         /\ comment = db.comment
         /\ metadata = db.metadata
    /\ conns = {}
    /\ pc = "idle"
    /\ locals = NoLocals
    /\ rec = NoRecord
    /\ ret = NoResult
    /\ last = NoCall
    /\ proc = NoProc
    /\ schema = Provisioned

NextConcurrent ==
    \/ comments_random_quote
    \/ comments_random_quote_fetch
    \/ comments_random_quote_comments
    \/ \E r \in OtherClientRecords : other_client_db_save(r)

SpecConcurrent == InitConcurrent /\ [][NextConcurrent]_vars

\* the provisioning calls made on a server that holds any of the two
\* databases, and in the program's database any of the tables with the rows of
\* a database that was filled before
InitProvision ==
    /\ \E databases \in SUBSET {Database, OtherDatabase} :
         \E names \in SUBSET TableNames :
           \E n \in 0..MaxQuotes : \E db \in Databases(n) :
             LET stored(type, t) == IF TableName(type) \in names THEN t ELSE <<>>
             IN /\ Database \notin databases => names = {}
                /\ schema = [databases |-> databases, tables |-> names]
                /\ quote = stored("Quote", db.quote)
                /\ author = stored("Author", db.author)
                /\ comment = stored("Comment", db.comment)
                /\ metadata = stored("Metadata", db.metadata)
    /\ conns = {}
    /\ pc = "idle"
    /\ locals = NoLocals
    /\ rec = NoRecord
    /\ ret = NoResult
    /\ last = NoCall
    /\ proc = NoProc

NextProvision ==
    \/ \E overwrite \in BOOLEAN : create_database(overwrite)
    \/ \E table_name \in TableNames : \E overwrite \in BOOLEAN :
         create_table(table_name, overwrite)
    \/ CallerContinues

SpecProvision == InitProvision /\ [][NextProvision]_vars

-----------------------------------------------------------------------------
(* The claims *)

Done(op) == pc = "done" /\ ret.op = op
Falsy(v) == ~Truthy(v)
Range(q) == {q[k] : k \in 1..Len(q)}

\* C1: every call of sql_execute and sql_query connects exactly once, to a
\* connection that was not open before, and has closed it when it returns, on
\* the success path and on the error path: no connection is ever left open
\* between calls.
C1_ConnectionPerCall ==
    /\ conns = {}
    /\ last.fn # "" => last.connects = 1 /\ ~last.reused

\* C1 witness: a query whose connection was established and whose statement
\* then failed has returned
C1_Witness ==
    pc = "done" /\ last.fn = "sql_query" /\ last.opened /\ last.error /\ conns = {}

\* C2: on a driver error sql_execute returns (None, None) and sql_query
\* returns None; neither raises.
C2_SentinelOnError ==
    last.error =>
        /\ last.fn = "sql_execute" => last.value = <<NoneV, NoneV>>
        /\ last.fn = "sql_query" => last.value = <<NoneV>>

\* C2 witness: an INSERT that failed, db_save having returned
C2_Witness ==
    Done("db_save") /\ last.fn = "sql_execute" /\ last.error /\ ret.kind = "return"

\* C3 (as claimed): when a query of run_model fails, run_model does not raise,
\* and a case that returns one sequence returns None or an empty one.
C3_NoRaiseOnFailure ==
    (Done("run_model") /\ ret.case \in Cases /\ last.error) =>
        /\ ret.kind = "return"
        /\ Len(ret.val) = 1 => Falsy(ret.val[1])

\* C4: run_model with a name that is none of the ten cases returns an empty
\* list, does not raise and makes no call to the database.
C4_UnknownCaseEmpty ==
    (Done("run_model") /\ ret.case \notin Cases) =>
        /\ ret.kind = "return"
        /\ ret.val = <<ListV(<<>>)>>
        /\ last = NoCall
        /\ conns = {}

\* C4 witness: an unknown name called with a value
C4_Witness ==
    Done("run_model") /\ ret.case = "X_QUOTES" /\ ret.arg = IntArg(1)

\* the operations that hand the result of their one sql_query to the caller
OneQuery ==
    \/ Done("fetch_by_id")
    \/ Done("run_model") /\ ret.case \in Cases \ {"comments_random_quote"} /\ last.fn = "sql_query"

\* C5 (as claimed): what the query path returns when the call fails is the
\* value it returns when the query succeeds and matches no rows (an empty list).
C5_FailureLooksEmpty ==
    (OneQuery /\ last.error) => ret.kind = "return" /\ ret.val = <<ListV(<<>>)>>

\* C5 (amended): the query path returns None when the call fails and an empty
\* list when the query succeeds and matches no rows; the two differ and are
\* both falsy.
C5_NoneOrEmpty ==
    OneQuery =>
        /\ ret.kind = "return" /\ ret.val = last.value
        /\ last.error => ret.val = <<NoneV>>
        /\ (~last.error /\ last.matched = 0) => ret.val = <<ListV(<<>>)>>
        /\ (last.error \/ last.matched = 0) => Falsy(ret.val[1])
        /\ NoneV # ListV(<<>>)

\* C5 witness: a tag query that ran and matched no row
C5_Witness ==
    /\ Done("run_model") /\ ret.case = "quotes_by_tag"
    /\ ~last.error /\ last.matched = 0 /\ Len(quote) > 0

\* C6: after a db_save that succeeded the record's id is the id the server
\* gave the new row, db_save has returned (1, that id), and the record's other
\* fields are what they were.
C6_IdAssigned ==
    (Done("db_save") /\ ~last.error) =>
        LET t == TableOf(rec.type)
        IN /\ Len(t) > 0
           /\ t[Len(t)] = InsertVal(ret.inp)
           /\ ret.kind = "return"
           /\ ret.val = <<IntV(1), IntV(Len(t))>>
           /\ rec = [ret.inp EXCEPT !.id = Len(t)]

\* C6 witness: a Comment that carried another id has been saved
C6_Witness ==
    /\ Done("db_save") /\ ~last.error
    /\ rec.type = "Comment" /\ ret.inp.id = 9 /\ rec.id = 1

\* C7: a Quote saved with an author_id of an existing author and then fetched
\* by the id db_save returned comes back as exactly one row, with its content
\* and with its tags joined by ", ".
C7_SaveThenFetch ==
    (Done("fetch_by_id") /\ ~last.error /\ rec.f.author_id \in 1..Len(author)) =>
        /\ ret.arg = IntArg(rec.id)
        /\ ret.val[1].t = "list"
        /\ Len(ret.val[1].rows) = 1
        /\ ret.val[1].rows[1].content = rec.f.content
        /\ ret.val[1].rows[1].tags = JoinCommaSpace(rec.f.tags)
        /\ ret.val[1].rows[1].author_name = author[rec.f.author_id].name

\* C7 witness: the second quote, with two tags, fetched back as "t, x"
C7_Witness ==
    /\ Done("fetch_by_id") /\ ~last.error /\ rec.id = 2
    /\ rec.f.tags = << <<"t">>, <<"x">> >>
    /\ ret.val[1].rows = <<[content |-> "D", author_name |-> <<"a", "b">>,
                            tags |-> <<"t", ",", " ", "x">>]>>

\* t2 holds every row of t, unchanged
Keeps(t, t2) == Len(t) <= Len(t2) /\ \A i \in 1..Len(t) : t2[i] = t[i]

\* C8: no step of db_save or run_model removes or changes a row of any table.
C8_RowsOnlyAdded ==
    [][/\ Keeps(quote, quote')
       /\ Keeps(author, author')
       /\ Keeps(comment, comment')
       /\ Keeps(metadata, metadata')]_vars

\* C8 witness: a second quote has been saved into a table that had one
C8_Witness ==
    Done("db_save") /\ ~last.error /\ rec.type = "Quote" /\ Len(quote) = 2

\* C9 (as claimed): quotes_by_tag(tag) returns exactly the joined rows whose
\* stored tags contain tag as a substring.
C9_TagSubstring ==
    (Done("run_model") /\ ret.case = "quotes_by_tag" /\ ret.arg.t = "str" /\ ~last.error) =>
        /\ Range(last.ids) = {i \in JoinedQuotes : Contains(quote[i].tags, ret.arg.s)}
        /\ ret.val[1].rows = Rows(last.ids, QuoteRow)

C11_TotalQuotes ==
    (Done("run_model") /\ ret.case = "total_quotes" /\ ~last.error) =>
        /\ ret.kind = "return"
        /\ ret.val = <<ListV(<<[total_quotes |-> Len(quote)]>>)>>
        /\ Len(ret.val[1].rows) = 1
        /\ Len(quote) = 0 => ret.val[1].rows[1].total_quotes = 0

\* C11 witness: total_quotes has answered one record with count 0 on a
\* database whose quote table is empty and whose author table is not
C11_Witness ==
    /\ Done("run_model") /\ ret.case = "total_quotes" /\ ~last.error
    /\ quote = <<>> /\ Len(author) = 1
    /\ ret.val[1].rows = <<[total_quotes |-> 0]>>

\* run_model('comments_random_quote') has ended, by a return or by an exception
DoneCrq == Done("run_model") /\ ret.case = "comments_random_quote"

\* C12 (as claimed): when no query fails and the quote picked has no comments,
\* comments_random_quote returns an empty list of comments and a list of one
\* record, the quote; it does not raise.
C12_QuoteWithoutComments ==
    (DoneCrq /\ last.calls = 3 /\ last.errors = 0 /\ last.matched = 0) =>
        /\ ret.kind = "return"
        /\ ret.val[1] = ListV(<<>>)
        /\ ret.val[2].t = "list"
        /\ Len(ret.val[2].rows) = 1

Given == ret.inp.kw
Rejected == ret.kind = "raise" /\ rec = NoRecord
Accepted == ret.kind = "return" /\ rec.type = ret.case
NotPositive(v) == v.t = "int" /\ v.n <= 0
Absent(v) == v.t \in {"omitted", "None"}

\* keyword arguments for the fields other than the class's own id and other
\* than its required texts that are right: a list, an author or a quote that
\* is a positive int, an address of the form u@e.c
OthersGood ==
    CASE ret.case = "Quote" ->
           Given.tags.t = "list" /\ Given.author_id \in {Omitted, IntArg(1)}
      [] ret.case = "Author" -> Given.birth_state.t # "omitted"
      [] ret.case = "Comment" ->
           Given.quote_id = IntArg(1) /\ Given.user_email = StrArg(<<"u", "@", "e", ".", "c">>)
      [] ret.case = "Metadata" -> Given.key_value.t = "list"

\* the keyword arguments given for the required texts of the class
Texts ==
    CASE ret.case = "Quote" -> {Given.content}
      [] ret.case = "Author" -> {Given.name, Given.description}
      [] ret.case = "Comment" -> {Given.title, Given.details}
      [] ret.case = "Metadata" -> {Given.key_name}

\* C14: constructing a record with a zero or negative id (its own, or a
\* Quote's author_id), a Comment with a quote_id that is missing, zero or
\* negative, or a Comment with a user_email that lacks the @, the local part
\* or the period of the domain raises a validation error and gives no record;
\* a record whose own id is omitted, its other fields being right, is
\* accepted, with no id.
C14_IdsAndEmail ==
    Done("construct") =>
        /\ NotPositive(Given[IdField(ret.case)]) => Rejected
        /\ ret.case = "Quote" /\ NotPositive(Given.author_id) => Rejected
        /\ ret.case = "Comment" =>
             /\ (Absent(Given.quote_id) \/ NotPositive(Given.quote_id)) => Rejected
             /\ Given.user_email \in
                  {StrArg(<<"u", "e", ".", "c">>), StrArg(<<"u", "@", "e">>),
                   StrArg(<<"@", "e", ".", "c">>)} => Rejected
        /\ (/\ Given[IdField(ret.case)] = Omitted
            /\ OthersGood
            /\ \A v \in Texts : v = StrArg(<<"C">>))
           => Accepted /\ rec.id = NULL

\* C14 witness: a Comment given the id -1 and nothing else that is wrong has
\* been refused
C14_Witness ==
    /\ Done("construct") /\ ret.case = "Comment" /\ Rejected
    /\ Given.id_comment = IntArg(-1) /\ OthersGood
    /\ \A v \in Texts : v = StrArg(<<"C">>)

\* C15 (as claimed): constructing a Quote with empty content, an Author with
\* an empty name or description, a Comment with an empty title or details, or
\* a Metadata with an empty key_name raises a validation error.
C15_NonEmptyText ==
    (Done("construct") /\ StrArg(<<>>) \in Texts) => Rejected

\* C15 (amended): content, name, description, title, details and key_name are
\* required and of type str: construction raises a validation error when one
\* of them is omitted or None, and accepts the empty string for each of them
\* when the other fields are right.
C15_RequiredText ==
    Done("construct") =>
        /\ (\E v \in Texts : Absent(v)) => Rejected
        /\ (/\ Absent(Given[IdField(ret.case)])
            /\ OthersGood
            /\ \A v \in Texts : v.t = "str")
           => /\ Accepted
              /\ \A n \in DOMAIN Given : Given[n].t = "str" => rec.f[n] = Given[n]

\* C15 witness: an Author whose name and description are both empty has been
\* constructed
C15_Witness ==
    /\ Done("construct") /\ ret.case = "Author" /\ Accepted
    /\ rec.f.name = StrArg(<<>>) /\ rec.f.description = StrArg(<<>>)

\* C16: the GUI exists, the main loop runs and run_model is called only after
\* test_connection has returned True and the query for the schema a list that
\* is not empty; when either check fails the process has exited with no
\* window, stdout where it was and no call of run_model.
C16_StartupGating ==
    /\ (\/ proc.window # "none" \/ proc.dispatched \/ proc.stdout # "original"
        \/ pc \in {"main_gui", "mainloop", "callback", "goodbye", "crashed"})
       => /\ proc.connected = "True"
          /\ proc.results.t = "list" /\ proc.results.rows # <<>>
    /\ (\/ proc.connected = "False"
        \/ proc.connected = "True" /\ pc # "main_query" /\ Falsy(proc.results))
       => /\ pc = "exited"
          /\ proc.window = "none" /\ ~proc.dispatched /\ proc.stdout = "original"

\* C16 witness: the server answered, the schema is missing (the query gave an
\* empty list), and the process has exited without a window
C16_Witness ==
    /\ pc = "exited" /\ proc.connected = "True" /\ proc.results = ListV(<<>>)
    /\ proc.window = "none" /\ ~proc.dispatched

\* C17 (as claimed): in every case of run_controller a result of the model
\* that is None (failure) or an empty list (no rows) makes the controller show
\* what it shows for no rows: it does not raise and puts no row on the screen.
C17_NoRowsLikeFailure ==
    (pc = "callback" /\ proc.out.results \in {NoneV, ListV(<<>>)}) =>
        /\ proc.out.exc = "none"
        /\ proc.out.items = <<>> /\ proc.out.more = <<>>

\* the list given to db_save, and whether one of its entries contains ", "
StoredList == IF rec.type = "Quote" THEN rec.f.tags ELSE rec.f.key_value
EntryWithSeparator ==
    \E k \in 1..Len(StoredList) : Contains(StoredList[k], <<",", " ">>)

\* C18 (as claimed): a list none of whose entries contains ", ", stored by
\* db_save and split on ", ", is the list again.
C18_RoundTrip ==
    (Done("split") /\ ~EntryWithSeparator) => ret.val[1] = StoredList

\* C18 (amended): a list stored by db_save and split on ", " is the list again
\* exactly when it is not empty and none of its entries contains ", "; the
\* empty list is stored as the empty string, which splits into one empty entry.
C18_RoundTripNonEmpty ==
    Done("split") =>
        /\ ret.val[1] = StoredList <=> (StoredList # <<>> /\ ~EntryWithSeparator)
        /\ StoredList = <<>> => ret.val[1] = << <<>> >>

\* C18 witness: the key_value ["a", "a,"] has been stored as "a, a," and split
\* into the same two entries
C18_Witness ==
    /\ Done("split") /\ rec.type = "Metadata"
    /\ rec.f.key_value = << <<"a">>, <<"a", ",">> >>
    /\ metadata[1].key_value = <<"a", ",", " ", "a", ",">>
    /\ ret.val[1] = rec.f.key_value

\* C19: a db_save of a Quote, an Author or a Comment, whether it succeeds or
\* fails, leaves the metadata table as it was, so that metadata('all_authors')
\* and metadata('all_tags') select after it what they selected before.
C19_MetadataUnchanged ==
    [][(pc = "idle" /\ ret'.op = "db_save" /\ ret'.case # "Metadata") =>
         /\ metadata' = metadata
         /\ \A k \in KeyNames :
              Select("metadata_fetch_by_key_name", StrArg(k))'
                = Select("metadata_fetch_by_key_name", StrArg(k))]_vars

\* C19 witness: a Quote with the tag "t" has been saved while the list stored
\* under all_tags does not have "t"
C19_Witness ==
    /\ Done("db_save") /\ ~last.error /\ rec.type = "Quote"
    /\ <<"t">> \in Range(rec.f.tags)
    /\ Len(metadata) = 1 /\ metadata[1].key_name = <<"all_tags">>
    /\ <<"t">> \notin Range(SplitCommaSpace(metadata[1].key_value))

\* the quotes that the join gives an author of this name
QuotesOfName(name) ==
    Cardinality({i \in 1..Len(quote) :
                   /\ quote[i].author_id \in 1..Len(author)
                   /\ author[quote[i].author_id].name = name})

\* C20: top5_authors, when its query does not fail, returns at most five
\* records, each the name of an author and the number of quotes of that name,
\* no name twice, no quote_count larger than the one before it; an author whose
\* name is not returned has no more quotes than any record returned, and has
\* quotes at all only when five records were returned.
C20_Top5Authors ==
    (Done("run_model") /\ ret.case = "top5_authors" /\ ~last.error) =>
        LET rows == ret.val[1].rows
        IN /\ ret.kind = "return" /\ ret.val[1].t = "list"
           /\ Len(rows) <= 5
           /\ \A k \in 1..Len(rows) :
                /\ rows[k].quote_count = QuotesOfName(rows[k].name)
                /\ rows[k].quote_count >= 1
                /\ \A j \in 1..Len(rows) : j # k => rows[j].name # rows[k].name
           /\ \A k \in 1..(Len(rows) - 1) : rows[k].quote_count >= rows[k + 1].quote_count
           /\ \A i \in 1..Len(author) :
                (\A k \in 1..Len(rows) : rows[k].name # author[i].name) =>
                  /\ \A k \in 1..Len(rows) : QuotesOfName(author[i].name) <= rows[k].quote_count
                  /\ QuotesOfName(author[i].name) = 0 \/ Len(rows) = 5

\* C20 witness: of six authors that all have quotes five are returned, the
\* first with two quotes and the last with one, as the author left out
C20_Witness ==
    /\ Done("run_model") /\ ret.case = "top5_authors" /\ ~last.error
    /\ Cardinality(GroupNames) = 6
    /\ Len(ret.val[1].rows) = 5
    /\ ret.val[1].rows[1].quote_count = 2 /\ ret.val[1].rows[5].quote_count = 1
    /\ \E i \in 1..Len(author) :
         /\ QuotesOfName(author[i].name) = 1
         /\ \A k \in 1..5 : ret.val[1].rows[k].name # author[i].name

\* a call of quotes_by_author with a name that did not fail
DoneByAuthor ==
    Done("run_model") /\ ret.case = "quotes_by_author" /\ ret.arg.t = "str" /\ ~last.error

AuthorNameOf(i) == author[quote[i].author_id].name

\* C21 (as claimed): quotes_by_author(name) returns every quote of the join
\* whose author's name contains name, not only those whose author's name is
\* name.
C21_AuthorSubstring ==
    DoneByAuthor =>
        {i \in JoinedQuotes : Contains(AuthorNameOf(i), ret.arg.s)} \subseteq Range(last.ids)

\* C21 (amended): quotes_by_author(name) returns the quote+author projection of
\* exactly the quotes of the join whose author's name matches name as a LIKE
\* pattern, name being passed as it is: for a name without % and _ those are
\* the quotes whose author's name is name, and a quote whose author's name only
\* contains name is not returned.
C21_AuthorPattern ==
    DoneByAuthor =>
        /\ ret.kind = "return"
        /\ ret.val[1].rows = Rows(last.ids, QuoteRow)
        /\ Cardinality(Range(last.ids)) = Len(last.ids)
        /\ Range(last.ids) = {i \in JoinedQuotes : Like(AuthorNameOf(i), ret.arg.s)}
        /\ (\A k \in 1..Len(ret.arg.s) : ret.arg.s[k] \notin {"%", "_"}) =>
              Range(last.ids) = {i \in JoinedQuotes : AuthorNameOf(i) = ret.arg.s}

\* C21 witness: the only quote is one of the author "ab"; quotes_by_author("a")
\* has returned no row
C21_Witness ==
    /\ DoneByAuthor /\ ret.arg = StrArg(<<"a">>)
    /\ Len(quote) = 1 /\ JoinedQuotes = {1} /\ AuthorNameOf(1) = <<"a", "b">>
    /\ ret.val = <<ListV(<<>>)>>

\* C24 (as claimed): a db_save whose sql_execute returns (None, None) returns
\* (None, None) without raising, leaves the record as it was given, its id
\* included, and adds no row to any table.
C24_FailedSaveNoEffect ==
    [][(pc = "idle" /\ ret'.op = "db_save" /\ last'.value = <<NoneV, NoneV>>) =>
         /\ ret'.kind = "return" /\ ret'.val = <<NoneV, NoneV>>
         /\ rec' = ret'.inp
         /\ tables' = tables]_vars

\* C25 (as claimed): all_quotes, when its query does not fail, returns one
\* record for every row of the quote table, as many as total_quotes counts,
\* quotes whose author_id is NULL included.
C25_AllQuotesCount ==
    (Done("run_model") /\ ret.case = "all_quotes" /\ ~last.error) =>
        /\ ret.kind = "return" /\ ret.val[1].t = "list"
        /\ Len(ret.val[1].rows) = CountQuotes

\* C27 (as claimed): once both startup checks have passed, the construction of
\* the GUI completes and the main loop is entered whatever the database holds,
\* the random_quote query of 'qotd' not having failed.
C27_GuiStarts ==
    (proc.window # "none" /\ proc.query_case = "qotd" /\ proc.out.results.t = "list") =>
        pc # "crashed"

\* C28: while the main loop runs, between callbacks and within one, the window
\* is open and sys.stdout is the console widget, an answer of no to the quit
\* dialog included; the window is never destroyed with stdout still
\* redirected, so that after the main loop has ended, at the goodbye line and
\* at the exit that follows it, stdout is the original stream.
C28_StdoutRestored ==
    /\ pc \in {"mainloop", "callback"} => proc.window = "open" /\ proc.stdout = "console"
    /\ proc.window = "destroyed" => proc.stdout = "original"
    /\ pc = "goodbye" => proc.window = "destroyed"
    /\ proc.window = "open" => pc \in {"mainloop", "callback", "crashed"}

\* C28 witness: the GUI was constructed and the user has answered yes to the
\* quit dialog; the window is destroyed, stdout is the original stream and the
\* goodbye line is about to be printed
C28_Witness ==
    pc = "goodbye" /\ proc.window = "destroyed" /\ proc.stdout = "original" /\ proc.dispatched

\* C22 (as claimed): create_table returns True when the table is there as it
\* returns, created by the call or found by it (with overwrite=False too, as
\* create_database does), and False when the call failed.
C22_CreateTableReturns ==
    Done("create_table") =>
        /\ ret.kind = "return"
        /\ last.error => ret.val[1] = FalseV
        /\ ~last.error => ret.val[1] = TrueV /\ ret.arg.s \in schema.tables

\* the rows of the table of this name after the step
RowsAfter(name) ==
    CASE name = TableName("Quote") -> quote'
      [] name = TableName("Author") -> author'
      [] name = TableName("Comment") -> comment'
      [] name = TableName("Metadata") -> metadata'
      [] OTHER -> <<>>

\* the step is a call of create_database or create_table during which the
\* driver raised no Error
ProvisionStep ==
    pc = "idle" /\ ret'.op \in {"create_database", "create_table"} /\ ~last'.error

\* C23 (as claimed): a provisioning call that does not fail leaves the
\* database or table it names in existence; with overwrite=False one that
\* existed keeps its contents and nothing is dropped; with overwrite=True one
\* that existed is there again and empty; one that did not exist is created
\* in both modes; no other table is touched.
C23_OverwriteOnly ==
    [][ProvisionStep =>
         LET name == ret'.arg.s
             overwrite == ret'.arg.n = 1
             db == ret'.op = "create_database"
             existed == IF db THEN name \in schema.databases ELSE name \in schema.tables
             others == \A t \in TableNames \ {name} :
                         /\ t \in schema'.tables <=> t \in schema.tables
                         /\ RowsAfter(t) = RowsOf(t)
         IN /\ IF db THEN name \in schema'.databases ELSE name \in schema'.tables
            /\ (existed /\ ~overwrite) => schema' = schema /\ tables' = tables
            /\ (existed /\ overwrite) =>
                  IF db THEN schema'.tables = {} /\ \A t \in TableNames : RowsAfter(t) = <<>>
                  ELSE RowsAfter(name) = <<>> /\ others
            /\ ~existed =>
                  IF db THEN schema'.tables = {} ELSE RowsAfter(name) = <<>> /\ others]_vars

\* the comments that refer to quote id
CommentsOf(id) == {i \in 1..Len(comment) : comment[i].quote_id = id}

\* a list that is empty or holds the row of quote id alone
QuoteOrNone(v, id) ==
    v.t = "list" => v.rows = <<>> \/ (id \in JoinedQuotes /\ v.rows = <<QuoteRow(id)>>)

\* C26: whatever another client inserts between the queries of a
\* comments_random_quote, the id picked by the first query is the one the two
\* other queries ask for; the pair returned has the comments first and the
\* quote second, as the GUI unpacks it; the quote is an empty list or the one
\* row of the quote of that id (None when its query failed); the comments are
\* the rows of exactly the comments that refer to that id when the third query
\* runs (None when that query failed).
C26_Consistent ==
    [][/\ (pc = "idle" /\ pc' = "crq_fetch_by_id") =>
             locals'.value = last'.ids[1] /\ locals'.value \in 1..Len(quote)
       /\ (pc \in {"crq_fetch_by_id", "crq_comments"} /\ pc' # "done") =>
             locals'.value = locals.value
       /\ (pc = "crq_fetch_by_id" /\ pc' = "crq_comments") =>
             /\ locals'.random_quote = last'.value[1]
             /\ QuoteOrNone(locals'.random_quote, locals.value)
       /\ (pc = "crq_comments" /\ pc' = "crq_comments") =>
             locals'.random_quote = locals.random_quote
       /\ (pc = "crq_comments" /\ pc' = "done" /\ ret'.kind = "return") =>
             LET u == Unpack(ret'.val)
             IN /\ u.quote = locals.random_quote
                /\ QuoteOrNone(u.quote, locals.value)
                /\ u.comments = last'.value[1]
                /\ u.comments.t = "list" =>
                      /\ u.comments.rows = Rows(last'.ids, CommentRow)
                      /\ Cardinality(Range(last'.ids)) = Len(last'.ids)
                      /\ Range(last'.ids) = CommentsOf(locals.value)]_vars

\* C26 witness: another client has inserted two rows between the queries; two
\* comments and the quote have been returned, and a comment to another quote
\* is in the table
C26_Witness ==
    /\ DoneCrq /\ ret.kind = "return" /\ last.others = 2 /\ last.errors = 0
    /\ Len(ret.val[1].rows) = 2 /\ Len(ret.val[2].rows) = 1
    /\ Len(comment) = 3
====
